---- MODULE Spec2Model ----
(***************************************************************************)
(* MentorConnect server: session booking (routes.ts, guide section G),     *)
(* chat history (storage.ts, guide section H) and the WebSocket hub        *)
(* (routes.ts, guide section I).                                           *)
(*                                                                         *)
(* The repository holds two revisions of the request handlers: the ones    *)
(* wired in server/routes.ts ("shipped") and the replacements given in     *)
(* the implementation guide ("guide").  The variable build says which      *)
(* revision of the handlers the running server uses; it never changes.     *)
(* Every instant is a number of milliseconds relative to a base date.      *)
(***************************************************************************)
EXTENDS Integers, Sequences, FiniteSets, TLC

Null == "null"

\* ---------------------------------------------------------------- bounds
MaxBookReqs == 3
MaxConns == 2
MaxEvents == 1
MaxTicks == 2
MaxMsgs == 3
MaxLimit == 2
MaxRegs == 2
MaxAcctBookReqs == 2
MaxOrdered == 2
\* milliseconds the clock advances in one step
TickMs == 2501

\* ------------------------------------------------------- program constants
CONFLICT_WINDOW_MINUTES == 30
AUTH_TIMEOUT_MS == 5000
\* page size of the chat history when the query gives none
DEFAULT_LIMIT == 20
\* close codes of ws.close in the connection handler
CLOSE_UNAUTHORIZED == 4001
CLOSE_INVALID == 4000

Builds == {"shipped", "guide"}

\* users known to the store, with their immutable role
Students == {"s1"}
Mentors  == {"m1"}
UserIds  == Students \cup Mentors

\* the rows of those users
SeedUsers ==
    <<[id |-> "s1", username |-> "sam", email |-> "sam@x", role |-> "student"],
      [id |-> "m1", username |-> "mia", email |-> "mia@x", role |-> "mentor"],
      [id |-> "s2", username |-> "sue", email |-> "sue@x", role |-> "student"]>>

\* every registered user; s2 books nothing and chats only where the
\* owners of the connections are followed
AllUserIds == {SeedUsers[i].id : i \in 1..Len(SeedUsers)}

\* mentorId values a booking body may carry (not validated against users)
BodyMentorIds == Mentors

\* scheduledTime values of booking bodies: 10:00, 10:15, 10:30
MINUTE_MS == 60 * 1000
SlotTimes == {0, 15 * MINUTE_MS, 30 * MINUTE_MS}

Conns == 1..MaxConns
NoConn == 0

\* what makes jwt.verify throw: a bad signature, an expired token, a string
\* that is no JWT
Defects == {"none", "signature", "expired", "malformed"}

\* a bearer token: the signed payload, and the defect jwt.verify finds
signed(user, type, defect) ==
    [id |-> user.id, email |-> user.email, role |-> user.role,
     type |-> type, defect |-> defect]

\* bearer tokens a client may present for the users of the store
Tokens == {signed(SeedUsers[i], ty, df) :
              i \in {j \in 1..Len(SeedUsers) : SeedUsers[j].id \in UserIds},
              ty \in {"access", "refresh"}, df \in Defects}

VARIABLES build, sessions, bookReq,
          clock, messages,
          userConnections, readyState, closeCode, userId, acceptedAt,
          outbox, events,
          fetch, walk,
          users, regReq, upd, authRes, errRes

bookingVars == <<sessions, bookReq>>
connVars == <<readyState, closeCode, userId, acceptedAt>>
hubVars == <<userConnections, readyState, closeCode, userId, acceptedAt,
             outbox, events>>
histVars == <<fetch, walk>>
apiVars == <<users, regReq, upd, authRes, errRes>>

\* req.user.role: the role in the caller's token, which is the role of the
\* caller's row (roles never change)
role(u) ==
    LET rows == {i \in 1..Len(users) : users[i].id = u}
    IN  IF rows = {} THEN Null ELSE users[CHOOSE i \in rows : TRUE].role
vars == <<build, sessions, bookReq, clock, messages, userConnections,
          readyState, closeCode, userId, acceptedAt, outbox, events,
          fetch, walk, users, regReq, upd, authRes, errRes>>

\* ------------------------------------------------------------- helpers
Abs(x) == IF x < 0 THEN -x ELSE x

Terminal(status) == status = "cancelled" \/ status = "completed"

\* ------------------------------------------------------------- storage
\* MemStorage.getUserSessions: every session the id takes part in
getUserSessions(ss, uid) ==
    SelectSeq(ss, LAMBDA s : s.studentId = uid \/ s.mentorId = uid)

\* MemStorage.createSession: new id, status pending
createSession(ss, studentId, mentorId, scheduledTime) ==
    Append(ss, [id |-> Len(ss) + 1, studentId |-> studentId,
                mentorId |-> mentorId, scheduledTime |-> scheduledTime,
                status |-> "pending"])

\* MemStorage.updateSessionStatus
updateSessionStatus(ss, id, status) ==
    [ss EXCEPT ![id].status = status]

\* ----------------------------------------------------- booking validator
\* variant: a distance equal to the window counts as a conflict
RECURSIVE scanConflictInclusive(_, _, _)
scanConflictInclusive(list, i, requestStart) ==
    IF i > Len(list) THEN FALSE
    ELSE IF Terminal(list[i].status)
         THEN scanConflictInclusive(list, i + 1, requestStart)
    ELSE IF Abs(list[i].scheduledTime - requestStart)
               <= CONFLICT_WINDOW_MINUTES * 60 * 1000 THEN TRUE
         ELSE scanConflictInclusive(list, i + 1, requestStart)

\* variant: cancelled and completed sessions are not skipped
RECURSIVE scanConflictAnyStatus(_, _, _)
scanConflictAnyStatus(list, i, requestStart) ==
    IF i > Len(list) THEN FALSE
    ELSE IF Abs(list[i].scheduledTime - requestStart)
               < CONFLICT_WINDOW_MINUTES * 60 * 1000 THEN TRUE
         ELSE scanConflictAnyStatus(list, i + 1, requestStart)

RECURSIVE scanConflict(_, _, _)
scanConflict(list, i, requestStart) ==
    IF i > Len(list) THEN FALSE
    ELSE IF Terminal(list[i].status) THEN scanConflict(list, i + 1, requestStart)
    ELSE LET sessionStart == list[i].scheduledTime
             windowMs == CONFLICT_WINDOW_MINUTES * 60 * 1000
         IN  IF Abs(sessionStart - requestStart) < windowMs THEN TRUE
             ELSE scanConflict(list, i + 1, requestStart)

checkBookingConflict(ss, mentorId, scheduledTime) ==
    scanConflict(getUserSessions(ss, mentorId), 1, scheduledTime)

\* ------------------------------------------------------------- booking
IdleReq == [pc |-> "idle", caller |-> Null, mentorId |-> Null,
            time |-> 0, conflict |-> FALSE, resp |-> 0]

\* POST /api/sessions/book as wired in routes.ts: role check, then create
\* (requests are numbered in the order they arrive)
BookShipped(r, caller, mentorId, t) ==
    /\ build = "shipped"
    /\ bookReq[r].pc = "idle"
    /\ \A q \in 1..(r - 1) : bookReq[q].pc # "idle"
    /\ IF role(caller) # "student"
       THEN /\ bookReq' = [bookReq EXCEPT ![r] =
                   [IdleReq EXCEPT !.pc = "done", !.resp = 403]]
            /\ UNCHANGED sessions
       ELSE /\ sessions' = createSession(sessions, caller, mentorId, t)
            /\ bookReq' = [bookReq EXCEPT ![r] =
                   [IdleReq EXCEPT !.pc = "done", !.resp = 200]]
    /\ UNCHANGED <<build, apiVars, clock, messages, hubVars, histVars>>

\* bookSessionHandler of the guide, up to the end of the awaited
\* checkBookingConflict: the body is parsed and the conflict result taken
BookCheck(r, caller, mentorId, t, wellFormed) ==
    /\ build = "guide"
    /\ bookReq[r].pc = "idle"
    /\ \A q \in 1..(r - 1) : bookReq[q].pc # "idle"
    /\ IF ~wellFormed
       THEN bookReq' = [bookReq EXCEPT ![r] =
                   [IdleReq EXCEPT !.pc = "done", !.resp = 400]]
       ELSE bookReq' = [bookReq EXCEPT ![r] =
                   [pc |-> "checked", caller |-> caller, mentorId |-> mentorId,
                    time |-> t,
                    conflict |-> checkBookingConflict(sessions, mentorId, t),
                    resp |-> 0]]
    /\ UNCHANGED <<build, apiVars, sessions, clock, messages, hubVars, histVars>>

\* variant: the conflict result is ignored and the session created anyway
BookFinishIgnoresConflict(r) ==
    /\ build = "guide"
    /\ bookReq[r].pc = "checked"
    /\ sessions' = createSession(sessions, bookReq[r].caller,
                                 bookReq[r].mentorId, bookReq[r].time)
    /\ bookReq' = [bookReq EXCEPT ![r] = [IdleReq EXCEPT !.pc = "done", !.resp = 201]]
    /\ UNCHANGED <<build, apiVars, clock, messages, hubVars, histVars>>

\* bookSessionHandler after the check: 409 on conflict, else create and 201
BookFinish(r) ==
    /\ build = "guide"
    /\ bookReq[r].pc = "checked"
    /\ IF bookReq[r].conflict
       THEN /\ bookReq' = [bookReq EXCEPT ![r] = [IdleReq EXCEPT !.pc = "done", !.resp = 409]]
            /\ UNCHANGED sessions
       ELSE /\ sessions' = createSession(sessions, bookReq[r].caller,
                                         bookReq[r].mentorId, bookReq[r].time)
            /\ bookReq' = [bookReq EXCEPT ![r] = [IdleReq EXCEPT !.pc = "done", !.resp = 201]]
    /\ UNCHANGED <<build, apiVars, clock, messages, hubVars, histVars>>

\* variant: either participant of the session may confirm it
confirmStatusAnyParticipant(ss, caller, id) ==
    IF id \notin 1..Len(ss) THEN 404
    ELSE IF ss[id].mentorId # caller /\ ss[id].studentId # caller THEN 403
    ELSE 200

\* the status PUT /api/sessions/:id/confirm answers with
confirmStatus(ss, caller, id) ==
    IF id \notin 1..Len(ss) THEN 404
    ELSE IF ss[id].mentorId # caller THEN 403
    ELSE 200

\* variant: the caller is not compared with the session's participants
cancelStatusAnyCaller(ss, caller, id) ==
    IF id \notin 1..Len(ss) THEN 404
    ELSE 200

\* the status PUT /api/sessions/:id/cancel answers with
cancelStatus(ss, caller, id) ==
    IF id \notin 1..Len(ss) THEN 404
    ELSE IF ss[id].studentId # caller /\ ss[id].mentorId # caller THEN 403
    ELSE 200

\* PUT /api/sessions/:id/confirm
Confirm(caller, id) ==
    /\ confirmStatus(sessions, caller, id) = 200
    /\ sessions' = updateSessionStatus(sessions, id, "confirmed")
    /\ UNCHANGED <<build, apiVars, bookReq, clock, messages, hubVars, histVars>>

\* PUT /api/sessions/:id/cancel
Cancel(caller, id) ==
    /\ cancelStatus(sessions, caller, id) = 200
    /\ sessions' = updateSessionStatus(sessions, id, "cancelled")
    /\ UNCHANGED <<build, apiVars, bookReq, clock, messages, hubVars, histVars>>

\* PUT /api/sessions/:id/confirm with its response: 404, 403, or the update
ConfirmRequest(caller, id) ==
    /\ LET status == confirmStatus(sessions, caller, id)
       IN  /\ upd' = [op |-> "confirm", caller |-> caller, id |-> id,
                      resp |-> status]
           /\ IF status = 200
              THEN sessions' = updateSessionStatus(sessions, id, "confirmed")
              ELSE UNCHANGED sessions
    /\ UNCHANGED <<build, errRes, users, regReq, authRes, bookReq, clock, messages,
                   hubVars, histVars>>

\* PUT /api/sessions/:id/cancel with its response
CancelRequest(caller, id) ==
    /\ LET status == cancelStatus(sessions, caller, id)
       IN  /\ upd' = [op |-> "cancel", caller |-> caller, id |-> id,
                      resp |-> status]
           /\ IF status = 200
              THEN sessions' = updateSessionStatus(sessions, id, "cancelled")
              ELSE UNCHANGED sessions
    /\ UNCHANGED <<build, errRes, users, regReq, authRes, bookReq, clock, messages,
                   hubVars, histVars>>

\* ------------------------------------------------------------ messages
\* MemStorage.createMessage: new id, timestamp = new Date()
createMessage(ms, senderId, receiverId, content, now) ==
    Append(ms, [id |-> Len(ms) + 1, senderId |-> senderId,
                receiverId |-> receiverId, content |-> content,
                timestamp |-> now])

\* the wall clock read by new Date(); it never goes back
Tick ==
    /\ clock + TickMs <= MaxTicks * TickMs
    /\ clock' = clock + TickMs
    /\ UNCHANGED <<build, apiVars, bookingVars, messages, hubVars, histVars>>

\* ------------------------------------------------------------- tokens
\* the null a failed verification returns
NoPayload == [id |-> Null, email |-> Null, role |-> Null, type |-> Null]

\* jwt.verify: the payload, or null when the signature or expiry is bad
verifyToken(token) ==
    IF token.defect = "none"
    THEN [id |-> token.id, email |-> token.email, role |-> token.role,
          type |-> token.type]
    ELSE NoPayload

verifyAccessToken(token) ==
    LET decoded == verifyToken(token)
    IN  IF decoded # NoPayload /\ decoded.type = "access" THEN decoded
        ELSE NoPayload

verifyRefreshToken(token) ==
    LET decoded == verifyToken(token)
    IN  IF decoded # NoPayload /\ decoded.type = "refresh" THEN decoded
        ELSE NoPayload

\* ------------------------------------------------------- WebSocket hub
NoEvent == [stage |-> "none", conn |-> NoConn, senderId |-> Null,
            receiverId |-> Null, msgId |-> 0]

\* the handler invocations followed: those of the hub specifications, or
\* those of the ordering specification if these are more
EventSlots == 1..(IF MaxOrdered > MaxEvents THEN MaxOrdered ELSE MaxEvents)

\* a handler invocation that has returned
Finished(stage, c) == [NoEvent EXCEPT !.stage = stage, !.conn = c]

\* a connection still delivers 'message' events: it is open, or the server
\* has called ws.close and the closing handshake has not completed
Receiving(c) ==
    \/ readyState[c] = "OPEN"
    \/ readyState[c] = "CLOSING" /\ closeCode[c] # 0

\* ws.close(code): starts the closing handshake of an open socket
wsClose(c, code) ==
    IF readyState[c] = "OPEN"
    THEN /\ readyState' = [readyState EXCEPT ![c] = "CLOSING"]
         /\ closeCode' = [closeCode EXCEPT ![c] = code]
    ELSE UNCHANGED <<readyState, closeCode>>

\* ws.send(...) guarded by readyState === WebSocket.OPEN
wsSend(box, c, type, m) ==
    IF c # NoConn /\ readyState[c] = "OPEN"
    THEN [box EXCEPT ![c] = Append(@, [type |-> type, id |-> m.id,
                                       content |-> m.content])]
    ELSE box

\* wss.on('connection'): a new socket, let userId = null
\* (sockets are numbered in the order they are accepted)
Connect(c) ==
    /\ readyState[c] = "NONE"
    /\ \A d \in 1..(c - 1) : readyState[d] # "NONE"
    /\ readyState' = [readyState EXCEPT ![c] = "OPEN"]
    /\ acceptedAt' = [acceptedAt EXCEPT ![c] = clock]
    /\ UNCHANGED <<histVars, build, apiVars, bookingVars, clock, messages, userConnections,
                   closeCode, userId, outbox, events>>

\* routes.ts, message.type === 'join'
Join(c, u) ==
    /\ build = "shipped"
    /\ Receiving(c)
    /\ userId' = [userId EXCEPT ![c] = u]
    /\ userConnections' = [userConnections EXCEPT ![u] = c]
    /\ UNCHANGED <<histVars, build, apiVars, bookingVars, clock, messages, readyState,
                   closeCode, acceptedAt, outbox, events>>

\* variant: a user's registry entry, once made, is kept
AuthenticateKeepsFirst(c, token) ==
    /\ build = "guide"
    /\ Receiving(c)
    /\ LET decoded == verifyAccessToken(token)
       IN  IF decoded = NoPayload
           THEN /\ wsClose(c, CLOSE_UNAUTHORIZED)
                /\ UNCHANGED <<userId, userConnections>>
           ELSE /\ userId' = [userId EXCEPT ![c] = decoded.id]
                /\ userConnections' =
                      IF userConnections[decoded.id] = NoConn
                      THEN [userConnections EXCEPT ![decoded.id] = c]
                      ELSE userConnections
                /\ UNCHANGED <<readyState, closeCode>>
    /\ UNCHANGED <<histVars, build, apiVars, bookingVars, clock, messages, acceptedAt,
                   outbox, events>>

\* guide, message.type === 'authenticate'
Authenticate(c, token) ==
    /\ build = "guide"
    /\ Receiving(c)
    /\ LET decoded == verifyAccessToken(token)
       IN  IF decoded = NoPayload
           THEN /\ wsClose(c, CLOSE_UNAUTHORIZED)
                /\ UNCHANGED <<userId, userConnections>>
           ELSE /\ userId' = [userId EXCEPT ![c] = decoded.id]
                /\ userConnections' = [userConnections EXCEPT ![decoded.id] = c]
                /\ UNCHANGED <<readyState, closeCode>>
    /\ UNCHANGED <<histVars, build, apiVars, bookingVars, clock, messages, acceptedAt,
                   outbox, events>>

\* routes.ts, message.type === 'sendMessage' up to the awaited createMessage
SendMessageShipped(c, e, senderId, receiverId) ==
    /\ build = "shipped"
    /\ Receiving(c)
    /\ events[e].stage = "none"
    /\ \A d \in 1..(e - 1) : events[d].stage # "none"
    /\ events' = [events EXCEPT ![e] =
            [stage |-> "awaiting", conn |-> c, senderId |-> senderId,
             receiverId |-> receiverId, msgId |-> 0]]
    /\ UNCHANGED <<histVars, build, apiVars, bookingVars, clock, messages, userConnections,
                   connVars, outbox>>

\* variant: the sender named in the event is not compared with userId
SendMessageNoSenderCheck(c, e, senderId, receiverId) ==
    /\ build = "guide"
    /\ Receiving(c)
    /\ events[e].stage = "none"
    /\ \A d \in 1..(e - 1) : events[d].stage # "none"
    /\ IF userId[c] = Null
       THEN /\ wsClose(c, CLOSE_UNAUTHORIZED)
            /\ events' = [events EXCEPT ![e] = Finished("rejected", c)]
       ELSE /\ events' = [events EXCEPT ![e] =
                    [stage |-> "awaiting", conn |-> c, senderId |-> senderId,
                     receiverId |-> receiverId, msgId |-> 0]]
            /\ UNCHANGED <<readyState, closeCode>>
    /\ UNCHANGED <<histVars, build, apiVars, bookingVars, clock, messages, userConnections,
                   userId, acceptedAt, outbox>>

\* guide, message.type === 'sendMessage' up to the awaited createMessage:
\* not authenticated -> close 4001; sender mismatch -> close 4000
SendMessage(c, e, senderId, receiverId) ==
    /\ build = "guide"
    /\ Receiving(c)
    /\ events[e].stage = "none"
    /\ \A d \in 1..(e - 1) : events[d].stage # "none"
    /\ IF userId[c] = Null
       THEN /\ wsClose(c, CLOSE_UNAUTHORIZED)
            /\ events' = [events EXCEPT ![e] = Finished("rejected", c)]
       ELSE IF senderId # userId[c]
       THEN /\ wsClose(c, CLOSE_INVALID)
            /\ events' = [events EXCEPT ![e] =
                    [Finished("rejected", c) EXCEPT !.senderId = senderId]]
       ELSE /\ events' = [events EXCEPT ![e] =
                    [stage |-> "awaiting", conn |-> c, senderId |-> userId[c],
                     receiverId |-> receiverId, msgId |-> 0]]
            /\ UNCHANGED <<readyState, closeCode>>
    /\ UNCHANGED <<histVars, build, apiVars, bookingVars, clock, messages, userConnections,
                   userId, acceptedAt, outbox>>

\* guide: a message of another type, or one that JSON.parse rejects
OtherMessage(c, parses) ==
    /\ build = "guide"
    /\ Receiving(c)
    /\ readyState[c] = "OPEN"
    /\ IF ~parses THEN wsClose(c, CLOSE_INVALID)
       ELSE IF userId[c] = Null THEN wsClose(c, CLOSE_UNAUTHORIZED)
       ELSE UNCHANGED <<readyState, closeCode>>
    /\ UNCHANGED <<histVars, build, apiVars, bookingVars, clock, messages, userConnections,
                   userId, acceptedAt, outbox, events>>

\* the message types a client may send
MessageTypes == {"join", "authenticate", "sendMessage", "ping"}

\* routes.ts: a message whose type is neither 'join' nor 'sendMessage'
\* matches no branch and the handler returns; one that JSON.parse rejects
\* reaches the catch block, which logs
UnhandledShipped(c, e, type, parses) ==
    /\ build = "shipped"
    /\ Receiving(c)
    /\ ~parses \/ type \notin {"join", "sendMessage"}
    /\ events[e].stage = "none"
    /\ \A d \in 1..(e - 1) : events[d].stage # "none"
    /\ events' = [events EXCEPT ![e] =
            Finished(IF parses THEN "ignored" ELSE "failed", c)]
    /\ UNCHANGED <<histVars, build, apiVars, bookingVars, clock, messages,
                   userConnections, connVars, outbox>>

\* storage.createMessage resolves: the message is stored
PersistOk(e) ==
    /\ events[e].stage = "awaiting"
    /\ messages' = createMessage(messages, events[e].senderId,
                                 events[e].receiverId, e, clock)
    /\ events' = [events EXCEPT ![e].stage = "stored",
                                ![e].msgId = Len(messages) + 1]
    /\ UNCHANGED <<histVars, build, apiVars, bookingVars, clock, userConnections, connVars, outbox>>

\* variant: the receiver is pushed the message although it was not stored
PersistFailStillPushes(e) ==
    /\ events[e].stage = "awaiting"
    /\ events' = [events EXCEPT ![e] = Finished("failed", NoConn)]
    /\ outbox' = wsSend(outbox, userConnections[events[e].receiverId],
                        "messageReceived", [id |-> 0, content |-> e])
    /\ UNCHANGED <<histVars, build, apiVars, bookingVars, clock, messages, userConnections,
                   connVars>>

\* storage.createMessage rejects: the handler's catch block runs
\* (routes.ts logs; the guide also closes the socket with 4000)
PersistFail(e) ==
    /\ events[e].stage = "awaiting"
    /\ events' = [events EXCEPT ![e] = Finished("failed", NoConn)]
    /\ IF build = "guide" THEN wsClose(events[e].conn, CLOSE_INVALID)
       ELSE UNCHANGED <<readyState, closeCode>>
    /\ UNCHANGED <<histVars, build, apiVars, bookingVars, clock, messages, userConnections,
                   userId, acceptedAt, outbox>>

\* the handler resumes after the await: push to the sender's registered
\* socket, then to the receiver's (the guide looks the sender up by the
\* connection's current userId, routes.ts by message.senderId)
Deliver(e) ==
    /\ events[e].stage = "stored"
    /\ LET m == messages[events[e].msgId]
           senderKey == IF build = "guide" THEN userId[events[e].conn]
                        ELSE events[e].senderId
           senderWs == userConnections[senderKey]
           receiverWs == userConnections[events[e].receiverId]
           senderType == IF build = "guide" THEN "messageSent" ELSE "message"
           receiverType == IF build = "guide" THEN "messageReceived" ELSE "message"
       IN  outbox' = wsSend(wsSend(outbox, senderWs, senderType, m),
                            receiverWs, receiverType, m)
    /\ events' = [events EXCEPT ![e] = Finished("done", NoConn)]
    /\ UNCHANGED <<histVars, build, apiVars, bookingVars, clock, messages, userConnections, connVars>>

\* routes.ts 'sendMessage' with the store of this build: the handler calls
\* MemStorage.createMessage, whose body stores the message before the
\* promise it returns exists, and then suspends at the await
SendAndStoreShipped(c, e, senderId, receiverId) ==
    /\ build = "shipped"
    /\ Receiving(c)
    /\ events[e].stage = "none"
    /\ \A d \in 1..(e - 1) : events[d].stage # "none"
    /\ messages' = createMessage(messages, senderId, receiverId, e, clock)
    /\ events' = [events EXCEPT ![e] =
            [stage |-> "stored", conn |-> c, senderId |-> senderId,
             receiverId |-> receiverId, msgId |-> Len(messages) + 1]]
    /\ UNCHANGED <<histVars, build, apiVars, bookingVars, clock,
                   userConnections, connVars, outbox>>

\* the same for the guide's 'sendMessage' branch
SendAndStore(c, e, senderId, receiverId) ==
    /\ build = "guide"
    /\ Receiving(c)
    /\ events[e].stage = "none"
    /\ \A d \in 1..(e - 1) : events[d].stage # "none"
    /\ IF userId[c] = Null
       THEN /\ wsClose(c, CLOSE_UNAUTHORIZED)
            /\ events' = [events EXCEPT ![e] = Finished("rejected", c)]
            /\ UNCHANGED messages
       ELSE IF senderId # userId[c]
       THEN /\ wsClose(c, CLOSE_INVALID)
            /\ events' = [events EXCEPT ![e] =
                    [Finished("rejected", c) EXCEPT !.senderId = senderId]]
            /\ UNCHANGED messages
       ELSE /\ messages' = createMessage(messages, userId[c], receiverId, e,
                                         clock)
            /\ events' = [events EXCEPT ![e] =
                    [stage |-> "stored", conn |-> c, senderId |-> userId[c],
                     receiverId |-> receiverId, msgId |-> Len(messages) + 1]]
            /\ UNCHANGED <<readyState, closeCode>>
    /\ UNCHANGED <<histVars, build, apiVars, bookingVars, clock,
                   userConnections, userId, acceptedAt, outbox>>

\* variant: the suspended handlers resume in any order
ResumeAnyOrder(e) == Deliver(e)

\* the handlers suspended at `await storage.createMessage` resume in the
\* order they suspended (promise jobs run first in, first out)
Resume(e) ==
    /\ \A d \in 1..(e - 1) : events[d].stage # "stored"
    /\ Deliver(e)

\* the client closes the socket, or the network drops it (closeCode stays
\* 0: the server has not called ws.close)
PeerClose(c) ==
    /\ readyState[c] = "OPEN"
    /\ readyState' = [readyState EXCEPT ![c] = "CLOSING"]
    /\ UNCHANGED <<histVars, build, apiVars, bookingVars, clock, messages, userConnections,
                   closeCode, userId, acceptedAt, outbox, events>>

\* ws.on('close'): if (userId) userConnections.delete(userId)
OnClose(c) ==
    /\ readyState[c] = "CLOSING"
    /\ readyState' = [readyState EXCEPT ![c] = "CLOSED"]
    /\ IF userId[c] # Null
       THEN userConnections' = [userConnections EXCEPT ![userId[c]] = NoConn]
       ELSE UNCHANGED userConnections
    /\ UNCHANGED <<histVars, build, apiVars, bookingVars, clock, messages, closeCode, userId,
                   acceptedAt, outbox, events>>

\* ------------------------------------------------------- chat history
\* the optional ?before= cursor of a history request
NoCursor == [present |-> FALSE, at |-> 0]
Cursor(t) == [present |-> TRUE, at |-> t]

Between(m, userId1, userId2) ==
    \/ m.senderId = userId1 /\ m.receiverId = userId2
    \/ m.senderId = userId2 /\ m.receiverId = userId1

\* Array.prototype.sort is stable: an element goes behind every element
\* the comparator does not order after it
insertDesc(sorted, x) ==
    LET k == Cardinality({i \in 1..Len(sorted) :
                             sorted[i].timestamp >= x.timestamp})
    IN  SubSeq(sorted, 1, k) \o <<x>> \o SubSeq(sorted, k + 1, Len(sorted))

insertAsc(sorted, x) ==
    LET k == Cardinality({i \in 1..Len(sorted) :
                             sorted[i].timestamp <= x.timestamp})
    IN  SubSeq(sorted, 1, k) \o <<x>> \o SubSeq(sorted, k + 1, Len(sorted))

RECURSIVE sortDesc(_)
sortDesc(list) ==
    IF list = <<>> THEN <<>>
    ELSE insertDesc(sortDesc(SubSeq(list, 1, Len(list) - 1)), list[Len(list)])

RECURSIVE sortAsc(_)
sortAsc(list) ==
    IF list = <<>> THEN <<>>
    ELSE insertAsc(sortAsc(SubSeq(list, 1, Len(list) - 1)), list[Len(list)])

slice(list, n) == SubSeq(list, 1, IF n < Len(list) THEN n ELSE Len(list))

\* MemStorage.getMessagesBetweenUsers of storage.ts: oldest first, whole
getMessagesBetweenUsersShipped(ms, userId1, userId2) ==
    sortAsc(SelectSeq(ms, LAMBDA m : Between(m, userId1, userId2)))

\* getMessagesBetweenUsers of the guide: filter, sort newest first, slice
getMessagesBetweenUsers(ms, userId1, userId2, limit, before) ==
    slice(sortDesc(SelectSeq(ms, LAMBDA m :
              Between(m, userId1, userId2) /\ m.timestamp < before)),
          limit)

\* getChatHistoryHandler: limit = query.limit || 20,
\* before = query.before ? new Date(query.before) : new Date()
getChatHistory(me, other, limitQ, beforeQ) ==
    getMessagesBetweenUsers(messages, me, other,
        IF limitQ = 0 THEN DEFAULT_LIMIT ELSE limitQ,
        IF beforeQ.present THEN beforeQ.at ELSE clock)

Ids(list) == [i \in 1..Len(list) |-> list[i].id]

NoFetch == [me |-> Null, other |-> Null, limit |-> 0, before |-> NoCursor,
            result |-> <<>>]
NoWalk == [phase |-> "idle", me |-> Null, other |-> Null, k |-> 0,
           got |-> <<>>]

\* storage.createMessage called for a new chat message
StoreMessage(a, b) ==
    /\ walk.phase = "idle"
    /\ Len(messages) < MaxMsgs
    /\ messages' = createMessage(messages, a, b, Len(messages) + 1, clock)
    /\ UNCHANGED <<build, apiVars, bookingVars, clock, hubVars, histVars>>

\* GET /api/chat/:otherUserId?limit=&before=   (limitQ = 0: no limit given)
Fetch(me, other, limitQ, beforeQ) ==
    /\ build = "guide"
    /\ walk.phase = "idle"
    /\ fetch' = [me |-> me, other |-> other, limit |-> limitQ,
                 before |-> beforeQ,
                 result |-> Ids(getChatHistory(me, other, limitQ, beforeQ))]
    /\ UNCHANGED <<build, apiVars, bookingVars, clock, messages, hubVars, walk>>

\* GET /api/messages/:userId of routes.ts
FetchShipped(me, other) ==
    /\ build = "shipped"
    /\ fetch' = [NoFetch EXCEPT !.me = me, !.other = other,
                 !.result = Ids(getMessagesBetweenUsersShipped(messages, me, other))]
    /\ UNCHANGED <<build, apiVars, bookingVars, clock, messages, hubVars, walk>>

\* a client pages through a conversation: first request without cursor,
\* sent in a later millisecond than the last insert ...
WalkStart(me, other, k) ==
    /\ build = "guide"
    /\ walk.phase = "idle"
    /\ \A i \in 1..Len(messages) : messages[i].timestamp < clock
    /\ LET page == Ids(getChatHistory(me, other, k, NoCursor))
       IN  /\ fetch' = [me |-> me, other |-> other, limit |-> k,
                        before |-> NoCursor, result |-> page]
           /\ walk' = [phase |-> "walking", me |-> me, other |-> other,
                       k |-> k, got |-> page]
    /\ UNCHANGED <<build, apiVars, bookingVars, clock, messages, hubVars>>

\* ... then each request with before = timestamp of the oldest message of
\* the previous page, until a page comes back empty
WalkNext ==
    /\ walk.phase = "walking"
    /\ IF fetch.result = <<>>
       THEN /\ walk' = [walk EXCEPT !.phase = "done"]
            /\ UNCHANGED fetch
       ELSE LET oldest == messages[fetch.result[Len(fetch.result)]].timestamp
                page == Ids(getChatHistory(walk.me, walk.other, walk.k,
                                           Cursor(oldest)))
            IN  /\ fetch' = [fetch EXCEPT !.before = Cursor(oldest),
                                          !.result = page]
                /\ walk' = [walk EXCEPT !.got = @ \o page]
    /\ UNCHANGED <<build, apiVars, bookingVars, clock, messages, hubVars>>

\* --------------------------------------------------------- accounts
NoToken == [id |-> Null, email |-> Null, role |-> Null, type |-> Null,
            defect |-> "malformed"]

\* a registration request not yet received
NoReg == [pc |-> "idle", username |-> Null, email |-> Null, role |-> Null,
          found |-> FALSE, resp |-> 0, user |-> Null, token |-> NoToken,
          refreshToken |-> NoToken]

\* request bodies of POST /api/auth/register: "sam" and "sam@x" are taken
\* by a registered user, "tutor" is no role of the application
Usernames == {"sam", "ann"}
Emails == {"sam@x", "ann@x"}
Roles == {"student", "mentor", "tutor"}

\* randomUUID(): the id of the next row, different from every id in use
NewIds == <<"u1", "u2", "u3", "u4">>
randomUUID(us) == NewIds[Len(us) - Len(SeedUsers) + 1]

\* MemStorage.getUserByEmail, getUserByUsername: the rows that match
getUserByEmail(us, email) == SelectSeq(us, LAMBDA u : u.email = email)
getUserByUsername(us, username) ==
    SelectSeq(us, LAMBDA u : u.username = username)

\* variant: every new user is stored as a student
createUserAsStudent(us, username, email, rl) ==
    Append(us, [id |-> randomUUID(us), username |-> username,
                email |-> email, role |-> "student"])

\* MemStorage.createUser: a new row under a new id
createUser(us, username, email, rl) ==
    Append(us, [id |-> randomUUID(us), username |-> username,
                email |-> email, role |-> rl])

\* generateToken of the auth module routes.ts imports: {id, email, role},
\* no type
generateToken(user) == signed(user, Null, "none")

\* auth_new.ts
generateAccessToken(user) == signed(user, "access", "none")
generateRefreshToken(user) == signed(user, "refresh", "none")

\* insertUserSchema.parse (routes.ts) takes any text as role;
\* RegisterSchema.parse (guide) takes student or mentor only
parses(wellFormed, rl) ==
    /\ wellFormed
    /\ build = "guide" => rl \in {"student", "mentor"}

\* POST /api/auth/register up to the awaited getUserByEmail
\* (requests are numbered in the order they arrive)
RegisterCheckEmail(r, username, email, rl, wellFormed) ==
    /\ regReq[r].pc = "idle"
    /\ \A q \in 1..(r - 1) : regReq[q].pc # "idle"
    /\ IF ~parses(wellFormed, rl)
       THEN regReq' = [regReq EXCEPT ![r] =
                [NoReg EXCEPT !.pc = "done", !.resp = 400]]
       ELSE regReq' = [regReq EXCEPT ![r] =
                [NoReg EXCEPT !.pc = "emailChecked", !.username = username,
                              !.email = email, !.role = rl,
                              !.found = getUserByEmail(users, email) # <<>>]]
    /\ UNCHANGED <<build, errRes, users, upd, authRes, bookingVars, clock, messages,
                   hubVars, histVars>>

\* ... 400 if the email exists, else up to the awaited getUserByUsername
RegisterCheckUsername(r) ==
    /\ regReq[r].pc = "emailChecked"
    /\ IF regReq[r].found
       THEN regReq' = [regReq EXCEPT ![r] =
                [NoReg EXCEPT !.pc = "done", !.resp = 400]]
       ELSE regReq' = [regReq EXCEPT ![r].pc = "nameChecked",
                ![r].found = getUserByUsername(users, regReq[r].username) # <<>>]
    /\ UNCHANGED <<build, errRes, users, upd, authRes, bookingVars, clock, messages,
                   hubVars, histVars>>

\* ... 400 if the username exists, else createUser, the token(s), 200
RegisterCreate(r) ==
    /\ regReq[r].pc = "nameChecked"
    /\ IF regReq[r].found
       THEN /\ regReq' = [regReq EXCEPT ![r] =
                   [NoReg EXCEPT !.pc = "done", !.resp = 400]]
            /\ UNCHANGED users
       ELSE LET us == createUser(users, regReq[r].username, regReq[r].email,
                                 regReq[r].role)
                user == us[Len(us)]
            IN  /\ users' = us
                /\ regReq' = [regReq EXCEPT ![r].pc = "done", ![r].resp = 200,
                       ![r].found = FALSE, ![r].user = user.id,
                       ![r].token = IF build = "guide"
                                    THEN generateAccessToken(user)
                                    ELSE generateToken(user),
                       ![r].refreshToken = IF build = "guide"
                                           THEN generateRefreshToken(user)
                                           ELSE NoToken]
    /\ UNCHANGED <<build, errRes, upd, authRes, bookingVars, clock, messages,
                   hubVars, histVars>>

\* no confirm or cancel request answered yet
NoUpd == [op |-> Null, caller |-> Null, id |-> 0, resp |-> 0]

\* no bearer token checked yet
NoAuth == [op |-> Null, token |-> NoToken, status |-> 0, error |-> Null,
           user |-> NoPayload]

\* variant: the middleware takes any token that verifies, of either type
authMiddlewareAnyType(token) == verifyToken(token)

\* authMiddleware: the payload taken for req.user, or none (401).
\* auth_new.ts takes access tokens only; the module routes.ts imports
\* knows one kind of token
authMiddleware(token) ==
    IF build = "guide" THEN verifyAccessToken(token) ELSE verifyToken(token)

\* a request to a route behind authMiddleware with `Bearer token`
AuthRequest(token) ==
    /\ LET decoded == authMiddleware(token)
       IN  authRes' =
             IF decoded = NoPayload
             THEN [op |-> "auth", token |-> token, status |-> 401,
                   error |-> IF build = "guide"
                             THEN "Invalid or expired access token"
                             ELSE "Invalid token",
                   user |-> NoPayload]
             ELSE [op |-> "auth", token |-> token, status |-> 200,
                   error |-> Null,
                   user |-> [decoded EXCEPT !.type = Null]]
    /\ UNCHANGED <<build, errRes, users, regReq, upd, bookingVars, clock, messages,
                   hubVars, histVars>>

\* refreshTokenHandler: the payload of the presented refresh token
refreshPayload(token) == verifyRefreshToken(token)

\* POST /api/auth/refresh (guide): 401, 404 or a new pair for the user
RefreshRequest(token) ==
    /\ build = "guide"
    /\ LET payload == refreshPayload(token)
       IN  authRes' =
             IF payload = NoPayload
             THEN [op |-> "refresh", token |-> token, status |-> 401,
                   error |-> "Invalid refresh token", user |-> NoPayload]
             ELSE IF role(payload.id) = Null
             THEN [op |-> "refresh", token |-> token, status |-> 404,
                   error |-> "User not found", user |-> NoPayload]
             ELSE [op |-> "refresh", token |-> token, status |-> 200,
                   error |-> Null,
                   user |-> [payload EXCEPT !.type = Null]]
    /\ UNCHANGED <<build, errRes, users, regReq, upd, bookingVars, clock, messages,
                   hubVars, histVars>>

\* ------------------------------------------------------ error handler
\* err.status and err.statusCode as they reach the handler (0: not set)
ErrStatuses == {0, 400, 401, 403, 404, 409, 418, 500, 502}
ErrStatusCodes == {0, 404}
\* err.message ("": empty) and err.stack
ErrMessages == {"", "connect ECONNREFUSED db:5432"}
ErrStack == "Error: at storage.ts:66"

Errors ==
    [status : ErrStatuses, statusCode : ErrStatusCodes, zod : BOOLEAN,
     message : ErrMessages, stack : {ErrStack}]

\* a || b of two texts
OrElse(a, b) == IF a # "" THEN a ELSE b

\* variant: a status the handler has no branch for is answered as it is
errorHandlerEchoesStatus(err, isDevelopment) ==
    LET status == IF err.status # 0 THEN err.status
                  ELSE IF err.statusCode # 0 THEN err.statusCode ELSE 500
    IN  IF err.zod
        THEN [status |-> 400, error |-> "Validation failed", details |-> TRUE]
        ELSE IF status = 400
        THEN [status |-> 400, error |-> OrElse(err.message, "Bad request"),
              details |-> FALSE]
        ELSE IF status = 401
        THEN [status |-> 401, error |-> "Unauthorized", details |-> FALSE]
        ELSE IF status = 403
        THEN [status |-> 403, error |-> "Forbidden", details |-> FALSE]
        ELSE IF status = 404
        THEN [status |-> 404, error |-> "Not found", details |-> FALSE]
        ELSE IF status = 409
        THEN [status |-> 409, error |-> OrElse(err.message, "Conflict"),
              details |-> FALSE]
        ELSE [status |-> status,
              error |-> IF isDevelopment THEN err.message
                        ELSE "Internal server error",
              details |-> FALSE]

\* errorHandler: the status and the JSON body of the response
\* (details: the body carries the list of validation issues)
errorHandler(err, isDevelopment) ==
    LET status == IF err.status # 0 THEN err.status
                  ELSE IF err.statusCode # 0 THEN err.statusCode ELSE 500
    IN  IF err.zod
        THEN [status |-> 400, error |-> "Validation failed", details |-> TRUE]
        ELSE IF status = 400
        THEN [status |-> 400, error |-> OrElse(err.message, "Bad request"),
              details |-> FALSE]
        ELSE IF status = 401
        THEN [status |-> 401, error |-> "Unauthorized", details |-> FALSE]
        ELSE IF status = 403
        THEN [status |-> 403, error |-> "Forbidden", details |-> FALSE]
        ELSE IF status = 404
        THEN [status |-> 404, error |-> "Not found", details |-> FALSE]
        ELSE IF status = 409
        THEN [status |-> 409, error |-> OrElse(err.message, "Conflict"),
              details |-> FALSE]
        ELSE [status |-> 500,
              error |-> IF isDevelopment THEN err.message
                        ELSE "Internal server error",
              details |-> FALSE]

NoErrRes ==
    [err |-> [status |-> 0, statusCode |-> 0, zod |-> FALSE, message |-> "",
              stack |-> ErrStack],
     dev |-> FALSE, handled |-> FALSE,
     resp |-> [status |-> 0, error |-> "", details |-> FALSE]]

\* an error reaches the error handler (next(error)); isDevelopment is
\* process.env.NODE_ENV === "development"
HandleError(err, isDevelopment) ==
    /\ errRes' = [err |-> err, dev |-> isDevelopment, handled |-> TRUE,
                  resp |-> errorHandler(err, isDevelopment)]
    /\ UNCHANGED <<build, users, regReq, upd, authRes, bookingVars, clock,
                   messages, hubVars, histVars>>

Init ==
    /\ build \in Builds
    /\ sessions = <<>>
    /\ bookReq = [r \in 1..MaxBookReqs |-> IdleReq]
    /\ clock = 0
    /\ messages = <<>>
    /\ userConnections = [u \in AllUserIds |-> NoConn]
    /\ readyState = [c \in Conns |-> "NONE"]
    /\ closeCode = [c \in Conns |-> 0]
    /\ userId = [c \in Conns |-> Null]
    /\ acceptedAt = [c \in Conns |-> 0]
    /\ outbox = [c \in Conns |-> <<>>]
    /\ events = [e \in EventSlots |-> NoEvent]
    /\ fetch = NoFetch
    /\ walk = NoWalk
    /\ users = SeedUsers
    /\ regReq = [r \in 1..MaxRegs |-> NoReg]
    /\ upd = NoUpd
    /\ authRes = NoAuth
    /\ errRes = NoErrRes

NextBooking ==
    \/ \E r \in 1..MaxBookReqs, c \in UserIds, m \in BodyMentorIds, t \in SlotTimes :
          BookShipped(r, c, m, t)
    \/ \E r \in 1..MaxBookReqs, c \in UserIds, m \in BodyMentorIds, t \in SlotTimes,
          w \in BOOLEAN : BookCheck(r, c, m, t, w)
    \/ \E r \in 1..MaxBookReqs : BookFinish(r)
    \/ \E c \in UserIds, id \in 1..MaxBookReqs : Confirm(c, id)
    \/ \E c \in UserIds, id \in 1..MaxBookReqs : Cancel(c, id)

SpecBooking == Init /\ [][NextBooking]_vars

\* the session routes of routes.ts, confirm and cancel with their responses
NextStatus ==
    \/ \E r \in 1..MaxBookReqs, c \in UserIds, m \in BodyMentorIds,
          t \in SlotTimes : BookShipped(r, c, m, t)
    \/ \E c \in AllUserIds, id \in 1..MaxBookReqs : ConfirmRequest(c, id)
    \/ \E c \in AllUserIds, id \in 1..MaxBookReqs : CancelRequest(c, id)

SpecStatus == Init /\ [][NextStatus]_vars

\* registration
NextRegister ==
    \/ \E r \in 1..MaxRegs, n \in Usernames, e \in Emails, rl \in Roles,
          w \in BOOLEAN : RegisterCheckEmail(r, n, e, rl, w)
    \/ \E r \in 1..MaxRegs : RegisterCheckUsername(r)
    \/ \E r \in 1..MaxRegs : RegisterCreate(r)
    \/ \E r \in 1..MaxRegs :
          regReq[r].resp = 200 /\ AuthRequest(regReq[r].token)

SpecRegister == Init /\ [][NextRegister]_vars

\* the error handler on every error
NextErrors == \E err \in Errors, dev \in BOOLEAN : HandleError(err, dev)

SpecErrors == Init /\ [][NextErrors]_vars

\* tokens of the module routes.ts imports: one kind, no type
LegacyTokens ==
    {signed(SeedUsers[i], Null, x) : i \in {j \in 1..Len(SeedUsers) :
                                            SeedUsers[j].id \in Students},
                                     x \in Defects}

\* the tokens presented: those of one user, of both types, sound and not
PresentedTokens == {t \in Tokens : t.id \in Students}

\* the operations that take a token, presented with any of these tokens
NextTokens ==
    \/ \E t \in PresentedTokens : build = "guide" /\ AuthRequest(t)
    \/ \E t \in LegacyTokens : build = "shipped" /\ AuthRequest(t)
    \/ \E t \in PresentedTokens : RefreshRequest(t)
    \/ \E c \in Conns : Connect(c)
    \/ \E c \in Conns, t \in PresentedTokens : Authenticate(c, t)

SpecTokens == Init /\ [][NextTokens]_vars

\* registration and booking: the caller of a booking is a registered user,
\* the mentorId of the body is any id, of a user or of nobody
AnyIds == UserIds \cup {NewIds[1], "zz"}

NextAccounts ==
    \/ \E r \in 1..MaxRegs, rl \in Roles :
          RegisterCheckEmail(r, "ann", "ann@x", rl, TRUE)
    \/ \E r \in 1..MaxRegs : RegisterCheckUsername(r)
    \/ \E r \in 1..MaxRegs : RegisterCreate(r)
    \/ \E r \in 1..MaxAcctBookReqs, c \in AnyIds, m \in AnyIds :
          role(c) # Null /\ BookShipped(r, c, m, 0)
    \/ \E r \in 1..MaxAcctBookReqs, c \in AnyIds, m \in AnyIds :
          role(c) # Null /\ BookCheck(r, c, m, 0, TRUE)
    \/ \E r \in 1..MaxAcctBookReqs : BookFinish(r)

SpecAccounts == Init /\ [][NextAccounts]_vars

NextHub ==
    \/ \E c \in Conns : Connect(c)
    \/ \E c \in Conns, u \in UserIds : Join(c, u)
    \/ \E c \in Conns, t \in Tokens : Authenticate(c, t)
    \/ \E c \in Conns, e \in 1..MaxEvents, a, b \in UserIds :
          SendMessageShipped(c, e, a, b)
    \/ \E c \in Conns, e \in 1..MaxEvents, a, b \in UserIds :
          SendMessage(c, e, a, b)
    \/ \E c \in Conns, p \in BOOLEAN : OtherMessage(c, p)
    \/ \E e \in 1..MaxEvents : PersistOk(e)
    \/ \E e \in 1..MaxEvents : PersistFail(e)
    \/ \E e \in 1..MaxEvents : Deliver(e)
    \/ \E c \in Conns : PeerClose(c)
    \/ \E c \in Conns : OnClose(c)

SpecHub == Init /\ [][NextHub]_vars

\* connection lifecycle against the wall clock
NextTimed ==
    \/ Tick
    \/ \E c \in Conns : Connect(c)
    \/ \E c \in Conns, u \in UserIds : Join(c, u)
    \/ \E c \in Conns, t \in Tokens : Authenticate(c, t)
    \/ \E c \in Conns, p \in BOOLEAN : OtherMessage(c, p)
    \/ \E c \in Conns : PeerClose(c)
    \/ \E c \in Conns : OnClose(c)

SpecTimed == Init /\ [][NextTimed]_vars

ClockValues == {n * TickMs : n \in 0..MaxTicks}

NextHistory ==
    \/ Tick
    \/ \E a, b \in UserIds : StoreMessage(a, b)
    \/ \E a, b \in UserIds, l \in 0..MaxLimit, t \in ClockValues :
          Fetch(a, b, l, Cursor(t))
    \/ \E a, b \in UserIds, l \in 0..MaxLimit : Fetch(a, b, l, NoCursor)
    \/ \E a, b \in UserIds : FetchShipped(a, b)
    \/ \E a, b \in UserIds, k \in 1..MaxLimit : WalkStart(a, b, k)
    \/ WalkNext

SpecHistory == Init /\ [][NextHistory]_vars

\* chat over the socket together with the history requests, which take
\* the default limit and no cursor
NextOffline ==
    \/ Tick
    \/ \E c \in Conns : Connect(c)
    \/ \E c \in Conns, u \in UserIds : Join(c, u)
    \/ \E c \in Conns, t \in PresentedTokens : Authenticate(c, t)
    \/ \E c \in Conns, e \in 1..MaxEvents, a, b \in UserIds :
          SendMessageShipped(c, e, a, b)
    \/ \E c \in Conns, e \in 1..MaxEvents, a, b \in UserIds :
          SendMessage(c, e, a, b)
    \/ \E e \in 1..MaxEvents : PersistOk(e)
    \/ \E e \in 1..MaxEvents : Deliver(e)
    \/ \E c \in Conns : PeerClose(c)
    \/ \E c \in Conns : OnClose(c)
    \/ \E a, b \in UserIds : Fetch(a, b, 0, NoCursor)
    \/ \E a, b \in UserIds : FetchShipped(a, b)

SpecOffline == Init /\ [][NextOffline]_vars

\* the socket protocol without chat traffic: registration, messages of
\* other types, closes
NextProtocol ==
    \/ \E c \in Conns : Connect(c)
    \/ \E c \in Conns, u \in UserIds : Join(c, u)
    \/ \E c \in Conns, t \in Tokens : Authenticate(c, t)
    \/ \E c \in Conns, p \in BOOLEAN : OtherMessage(c, p)
    \/ \E c \in Conns, e \in 1..MaxEvents, ty \in MessageTypes, p \in BOOLEAN :
          UnhandledShipped(c, e, ty, p)
    \/ \E c \in Conns : PeerClose(c)
    \/ \E c \in Conns : OnClose(c)

SpecProtocol == Init /\ [][NextProtocol]_vars

\* the user whose client opened connection c, and the tokens that client
\* holds: its own
Owner(c) == SeedUsers[((c - 1) % Len(SeedUsers)) + 1].id
OwnTokens(c) ==
    {signed(SeedUsers[i], ty, df) :
        i \in {j \in 1..Len(SeedUsers) : SeedUsers[j].id = Owner(c)},
        ty \in {"access", "refresh"}, df \in Defects}

\* the hub with clients that present their own tokens but may name any
\* user id in a message
NextParties ==
    \/ \E c \in Conns : Connect(c)
    \/ \E c \in Conns, u \in AllUserIds : Join(c, u)
    \/ \E c \in Conns : \E t \in OwnTokens(c) : Authenticate(c, t)
    \/ \E c \in Conns, e \in 1..MaxEvents, a, b \in AllUserIds :
          SendMessageShipped(c, e, a, b)
    \/ \E c \in Conns, e \in 1..MaxEvents, a, b \in AllUserIds :
          SendMessage(c, e, a, b)
    \/ \E e \in 1..MaxEvents : PersistOk(e)
    \/ \E e \in 1..MaxEvents : Deliver(e)
    \/ \E c \in Conns : PeerClose(c)
    \/ \E c \in Conns : OnClose(c)

SpecParties == Init /\ [][NextParties]_vars

\* the access tokens that verify
AccessTokens == {t \in Tokens : t.type = "access" /\ t.defect = "none"}

\* chat over the socket with the in-memory store, the events naming one
\* sender and one receiver
NextOrder ==
    \/ Tick
    \/ \E c \in Conns : Connect(c)
    \/ \E c \in Conns, u \in UserIds : Join(c, u)
    \/ \E c \in Conns, t \in AccessTokens : Authenticate(c, t)
    \/ \E c \in Conns, e \in 1..MaxOrdered, a \in Students,
          b \in Mentors :
          SendAndStoreShipped(c, e, a, b)
    \/ \E c \in Conns, e \in 1..MaxOrdered, a \in Students,
          b \in Mentors :
          SendAndStore(c, e, a, b)
    \/ \E e \in 1..MaxOrdered : Resume(e)
    \/ \E c \in Conns : PeerClose(c)
    \/ \E c \in Conns : OnClose(c)

SpecOrder == Init /\ [][NextOrder]_vars

\* ======================================================= booking claims
WindowMs == CONFLICT_WINDOW_MINUTES * MINUTE_MS

Active(s) == ~Terminal(s.status)

Involves(s, u) == s.studentId = u \/ s.mentorId = u

\* C2: no two sessions of one mentor that are both neither cancelled nor
\* completed lie less than the conflict window apart.
NoDoubleBooking ==
    \A i, j \in 1..Len(sessions) :
        (/\ i # j
         /\ sessions[i].mentorId = sessions[j].mentorId
         /\ Active(sessions[i]) /\ Active(sessions[j]))
        => Abs(sessions[i].scheduledTime - sessions[j].scheduledTime) >= WindowMs

\* proposed times around an existing booking at t: the same instant, 29 and
\* 30 minutes away, and one millisecond inside and outside the window
ProbeOffsets == {0, 29 * MINUTE_MS, WindowMs - 1, WindowMs, WindowMs + 1}
Probes(t) == {t + d : d \in ProbeOffsets} \cup {t - d : d \in ProbeOffsets}

SoleActive(i) ==
    /\ Active(sessions[i])
    /\ \A j \in 1..Len(sessions) :
          (j # i /\ Involves(sessions[j], sessions[i].mentorId))
          => ~Active(sessions[j])

\* C5: a non-terminal booking at T on mentor M makes the check for (M, T')
\* true whenever |T - T'| < window, and when it is M's only non-terminal
\* booking the check is true if and only if |T - T'| < window; a distance
\* equal to the window is no conflict, before and after T alike.
ConflictIffWithinWindow ==
    \A i \in 1..Len(sessions) :
        Active(sessions[i]) =>
            \A p \in Probes(sessions[i].scheduledTime) :
                LET near == Abs(sessions[i].scheduledTime - p) < WindowMs
                    res  == checkBookingConflict(sessions, sessions[i].mentorId, p)
                IN  /\ near => res
                    /\ SoleActive(i) => (res <=> near)

ConflictBoundaryWitness ==
    \E i \in 1..Len(sessions) :
        /\ SoleActive(i)
        /\ checkBookingConflict(sessions, sessions[i].mentorId,
                                sessions[i].scheduledTime + 29 * MINUTE_MS)
        /\ ~checkBookingConflict(sessions, sessions[i].mentorId,
                                 sessions[i].scheduledTime + 30 * MINUTE_MS)
        /\ ~checkBookingConflict(sessions, sessions[i].mentorId,
                                 sessions[i].scheduledTime - 30 * MINUTE_MS)

\* a cancelled session of mentor m at time t exists, and no pending or
\* confirmed session that m takes part in lies within the window of t
FreedSlot(m, t) ==
    /\ \E i \in 1..Len(sessions) :
          /\ sessions[i].mentorId = m
          /\ sessions[i].scheduledTime = t
          /\ sessions[i].status = "cancelled"
    /\ \A j \in 1..Len(sessions) :
          (Involves(sessions[j], m) /\ Active(sessions[j]))
          => Abs(sessions[j].scheduledTime - t) >= WindowMs

\* C6: cancelled bookings never count toward conflicts: a booking request
\* for mentor M at the time of a cancelled booking of M, with no pending or
\* confirmed booking of M within the window, passes the conflict check, and
\* a request that passed the check is answered 201 with a new pending
\* session for that mentor and time.
CancelledNeverCounts ==
    [][\A r \in 1..MaxBookReqs :
        /\ (/\ bookReq[r].pc = "idle"
            /\ bookReq'[r].pc = "checked"
            /\ FreedSlot(bookReq'[r].mentorId, bookReq'[r].time))
           => ~bookReq'[r].conflict
        /\ (/\ bookReq[r].pc = "checked"
            /\ ~bookReq[r].conflict
            /\ bookReq'[r] # bookReq[r])
           => /\ bookReq'[r].resp = 201
              /\ Len(sessions') = Len(sessions) + 1
              /\ sessions'[Len(sessions')].mentorId = bookReq[r].mentorId
              /\ sessions'[Len(sessions')].scheduledTime = bookReq[r].time
              /\ sessions'[Len(sessions')].status = "pending"
      ]_vars

RebookedAfterCancel ==
    /\ build = "guide"
    /\ \E r \in 1..MaxBookReqs : bookReq[r].resp = 201
    /\ \E i, j \in 1..Len(sessions) :
          /\ i < j
          /\ sessions[i].status = "cancelled"
          /\ sessions[j].status = "pending"
          /\ sessions[j].mentorId = sessions[i].mentorId
          /\ sessions[j].scheduledTime = sessions[i].scheduledTime

\* C7: a request whose conflict check was positive is answered 409, creates
\* no session and is finished (the check is not run again for it).
ConflictIsTerminalRejection ==
    [][\A r \in 1..MaxBookReqs :
        (/\ bookReq[r].pc = "checked"
         /\ bookReq[r].conflict
         /\ bookReq'[r] # bookReq[r])
        => /\ bookReq'[r].pc = "done"
           /\ bookReq'[r].resp = 409
           /\ sessions' = sessions
      ]_vars

ConflictRejected ==
    \E r \in 1..MaxBookReqs : bookReq[r].pc = "done" /\ bookReq[r].resp = 409

\* =========================================================== hub claims
\* C1: the close handler removes the registry entry of the connection's
\* user id if and only if that entry is the closing connection; a newer
\* connection registered under the same id stays registered.
StaleCloseKeepsNewer ==
    [][\A c \in Conns :
        (readyState[c] = "CLOSING" /\ readyState'[c] = "CLOSED"
         /\ userId[c] # Null)
        => userConnections'[userId[c]] =
              IF userConnections[userId[c]] = c THEN NoConn
              ELSE userConnections[userId[c]]
      ]_vars

PersistBeforePush ==
    /\ \A c \in Conns : \A i \in 1..Len(outbox[c]) :
          /\ outbox[c][i].id \in 1..Len(messages)
          /\ messages[outbox[c][i].id].content = outbox[c][i].content
    /\ \A e \in 1..MaxEvents :
          events[e].stage = "failed"
          => /\ \A i \in 1..Len(messages) : messages[i].content # e
             /\ \A c \in Conns : \A i \in 1..Len(outbox[c]) :
                   outbox[c][i].content # e

PushedAfterPersist ==
    \E c, d \in Conns :
        /\ c # d
        /\ Len(outbox[c]) > 0 /\ Len(outbox[d]) > 0
        /\ Len(messages) > 0

\* C8: a connection that has not authenticated is closed by the server
\* once AUTH_TIMEOUT_MS have passed since it was accepted, and is never the
\* value of a registry entry.
AuthTimeoutEnforced ==
    \A c \in Conns :
        userId[c] = Null
        => /\ readyState[c] = "OPEN" => clock - acceptedAt[c] <= AUTH_TIMEOUT_MS
           /\ \A u \in UserIds : userConnections[u] # c

\* ======================================================= history claims
PairIds(a, b) == {i \in 1..Len(messages) : Between(messages[i], a, b)}

NewestFirst(ids) ==
    \A i, j \in 1..Len(ids) :
        i < j => messages[ids[i]].timestamp >= messages[ids[j]].timestamp

NoDuplicates(ids) ==
    \A i, j \in 1..Len(ids) : i # j => ids[i] # ids[j]

Range(ids) == {ids[i] : i \in 1..Len(ids)}

\* C9: a finished walk (limit k, each cursor the oldest timestamp of the
\* previous page) has collected every message of the pair exactly once,
\* newest first.
PaginationGapFree ==
    walk.phase = "done"
    => /\ Range(walk.got) = PairIds(walk.me, walk.other)
       /\ NoDuplicates(walk.got)
       /\ NewestFirst(walk.got)

\* the page the claim describes: the messages of the pair below the cursor
\* (all of them without cursor), newest first, cut to the first L
IsPage(ids, a, b, L, cur) ==
    LET S == {i \in PairIds(a, b) :
                 cur.present => messages[i].timestamp < cur.at}
    IN  /\ Range(ids) \subseteq S
        /\ NoDuplicates(ids)
        /\ NewestFirst(ids)
        /\ Len(ids) = IF Cardinality(S) < L THEN Cardinality(S) ELSE L
        /\ \A i \in S \ Range(ids) : \A j \in Range(ids) :
              messages[i].timestamp <= messages[j].timestamp

\* C10: every history fetch with limit L and optional cursor returns
\* exactly that page.
FetchReturnsPage ==
    [][(build = "guide" /\ fetch' # fetch)
       => IsPage(fetch'.result, fetch'.me, fetch'.other,
                 IF fetch'.limit = 0 THEN DEFAULT_LIMIT ELSE fetch'.limit,
                 fetch'.before)
      ]_vars

\* ================================================ session status claims
\* C11: status transitions are one-way: a session that is cancelled or
\* completed never changes status again, and no session returns to pending.
StatusOneWay ==
    [][\A i \in 1..Len(sessions) :
          /\ Terminal(sessions[i].status)
                => sessions'[i].status = sessions[i].status
          /\ sessions[i].status # "pending" => sessions'[i].status # "pending"
      ]_vars

\* C12: a session becomes confirmed only through a confirm request of its
\* mentor; a confirm request of anyone else is answered 403 and one for an
\* unknown id 404, both leaving the store unchanged.
ConfirmOnlyByMentor ==
    [][/\ \A i \in 1..Len(sessions) :
             (sessions[i].status # "confirmed"
              /\ sessions'[i].status = "confirmed")
             => /\ upd'.op = "confirm" /\ upd'.id = i /\ upd'.resp = 200
                /\ upd'.caller = sessions[i].mentorId
       /\ (upd' # upd /\ upd'.op = "confirm")
             => /\ upd'.id \notin 1..Len(sessions)
                     => upd'.resp = 404 /\ sessions' = sessions
                /\ (/\ upd'.id \in 1..Len(sessions)
                    /\ upd'.caller # sessions[upd'.id].mentorId)
                     => upd'.resp = 403 /\ sessions' = sessions
      ]_vars

ConfirmRefusedWitness ==
    /\ upd.op = "confirm" /\ upd.resp = 403
    /\ upd.id \in 1..Len(sessions)
    /\ upd.caller = sessions[upd.id].studentId
    /\ \E i \in 1..Len(sessions) : sessions[i].status = "confirmed"

\* C13: a session becomes cancelled only through a cancel request of its
\* student or its mentor; a cancel request of a non-participant is
\* answered 403 and leaves every session unchanged.
CancelOnlyByParticipant ==
    [][/\ \A i \in 1..Len(sessions) :
             (sessions[i].status # "cancelled"
              /\ sessions'[i].status = "cancelled")
             => /\ upd'.op = "cancel" /\ upd'.id = i /\ upd'.resp = 200
                /\ upd'.caller \in {sessions[i].studentId, sessions[i].mentorId}
       /\ (/\ upd' # upd /\ upd'.op = "cancel"
           /\ upd'.id \in 1..Len(sessions)
           /\ upd'.caller \notin {sessions[upd'.id].studentId,
                                  sessions[upd'.id].mentorId})
             => upd'.resp = 403 /\ sessions' = sessions
      ]_vars

CancelRefusedWitness ==
    /\ upd.op = "cancel" /\ upd.resp = 403
    /\ upd.id \in 1..Len(sessions)
    /\ \E i \in 1..Len(sessions) : sessions[i].status = "cancelled"

\* ================================================ booking role claims
\* C14: every session is created pending with the caller as its student,
\* and only a caller with role student creates one: a booking request of
\* a caller with role mentor is answered 403 and creates no session.
OnlyStudentsBook ==
    [][/\ Len(sessions') > Len(sessions)
             => LET new == sessions'[Len(sessions')]
                IN  /\ Len(sessions') = Len(sessions) + 1
                    /\ new.status = "pending"
                    /\ role(new.studentId) = "student"
                    /\ \A r \in 1..MaxBookReqs :
                          (bookReq[r].pc = "checked" /\ bookReq'[r].pc = "done")
                          => new.studentId = bookReq[r].caller
       /\ \A r \in 1..MaxBookReqs :
             (/\ bookReq[r].pc = "checked"
              /\ role(bookReq[r].caller) = "mentor"
              /\ bookReq'[r] # bookReq[r])
             => bookReq'[r].resp = 403 /\ sessions' = sessions
      ]_vars
\* C15: every session's studentId is the id of a registered user with role
\* student and its mentorId the id of a registered user with role mentor
ReferentialIntegrity ==
    \A i \in 1..Len(sessions) :
        /\ role(sessions[i].studentId) = "student"
        /\ role(sessions[i].mentorId) = "mentor"

TokenKindsNeverMixed ==
    /\ [](/\ (authRes.op = "auth" /\ authRes.token.type = "refresh")
              => authRes.status = 401
          /\ (authRes.op = "refresh" /\ authRes.token.type = "access")
              => authRes.status = 401
          /\ (authRes.op # Null /\ authRes.token.defect # "none")
              => /\ authRes.status = 401
                 /\ authRes.user = NoPayload
                 /\ authRes.error =
                      (IF authRes.op = "refresh" THEN "Invalid refresh token"
                       ELSE IF build = "guide"
                            THEN "Invalid or expired access token"
                            ELSE "Invalid token"))
    /\ [][\A c \in Conns, t \in PresentedTokens :
            (Authenticate(c, t) /\ (t.type # "access" \/ t.defect # "none"))
            => /\ userId'[c] = userId[c]
               /\ userConnections' = userConnections
               /\ readyState'[c] = "CLOSING"
               /\ closeCode'[c] = CLOSE_UNAUTHORIZED
       ]_vars

\* a well-signed, unexpired refresh token was presented as access token and
\* refused, and a socket that presented a token was closed unregistered
RefreshRefusedAsAccess ==
    /\ authRes.op = "auth"
    /\ authRes.token.type = "refresh"
    /\ authRes.token.defect = "none"
    /\ authRes.status = 401
    /\ \E c \in Conns : closeCode[c] = CLOSE_UNAUTHORIZED /\ userId[c] = Null

\* C18: no two stored users share a username or an email, and a
\* registration answered 200 was the only one to take its username and
\* email
UniqueCredentials ==
    /\ \A i, j \in 1..Len(users) :
          i # j => /\ users[i].username # users[j].username
                   /\ users[i].email # users[j].email
    /\ \A r, q \in 1..MaxRegs :
          (r # q /\ regReq[r].resp = 200 /\ regReq[q].resp = 200)
          => /\ regReq[r].username # regReq[q].username
             /\ regReq[r].email # regReq[q].email

\* C19: only a connection that has authenticated with a valid access token
\* is entered in the registry, has a sendMessage event accepted (in flight
\* to the store) or has a message of its own stored
OnlyAuthenticatedConnectionsAct ==
    LET authenticated(c) == build = "guide" /\ userId[c] # Null
    IN  /\ \A u \in UserIds :
              userConnections[u] # NoConn => authenticated(userConnections[u])
        /\ \A e \in 1..MaxEvents :
              events[e].stage \in {"awaiting", "stored"}
              => authenticated(events[e].conn)

\* u has an open connection registered under its id
Live(u) ==
    /\ userConnections[u] # NoConn
    /\ readyState[userConnections[u]] = "OPEN"

\* no connection has ever been u's
NeverConnected(u) == \A c \in Conns : userId[c] # u

\* C20: a message sent to a user who has no open registered connection is
\* stored, is pushed to no connection of that user (the sender's own
\* socket gets the sender's copy), and is in the result of every later
\* history fetch between its sender and its receiver
OfflineMessageKept ==
    /\ [](\A e \in 1..MaxEvents :
            events[e].stage = "stored"
            => /\ events[e].msgId \in 1..Len(messages)
               /\ messages[events[e].msgId].receiverId = events[e].receiverId)
    /\ [][/\ \A e \in 1..MaxEvents :
               (/\ events[e].stage = "stored"
                /\ events'[e].stage = "done"
                /\ ~Live(events[e].receiverId))
               => \A c \in Conns :
                     (/\ userId[c] = events[e].receiverId
                      /\ c # userConnections[events[e].senderId])
                     => outbox'[c] = outbox[c]
          /\ \A i \in 1..Len(messages) :
               (/\ NeverConnected(messages[i].receiverId)
                /\ fetch' # fetch
                /\ {fetch'.me, fetch'.other}
                     = {messages[i].senderId, messages[i].receiverId})
               => \E k \in 1..Len(fetch'.result) :
                     fetch'.result[k] = messages[i].id
       ]_vars

\* ============================================= socket protocol claims
\* C21: an authenticate message whose token fails access-token
\* verification closes the connection at once with the authorization
\* failure code, and the registry stays as it was
BadTokenClosesConnection ==
    [][\A c \in Conns :
          /\ \A t \in Tokens :
                (/\ Authenticate(c, t)
                 /\ verifyAccessToken(t) = NoPayload
                 /\ readyState[c] = "OPEN")
                => /\ readyState'[c] = "CLOSING"
                   /\ closeCode'[c] = CLOSE_UNAUTHORIZED
                   /\ userConnections' = userConnections
          /\ \A e \in 1..MaxEvents :
                (/\ UnhandledShipped(c, e, "authenticate", TRUE)
                 /\ readyState[c] = "OPEN")
                => /\ readyState'[c] = "CLOSING"
                   /\ closeCode'[c] = CLOSE_UNAUTHORIZED
                   /\ userConnections' = userConnections
      ]_vars

\* C22: when the handler resumes after the message is persisted, the
\* connection the sendMessage event arrived on, if still open, is sent
\* the stored message
AckToOwnConnection ==
    [][\A e \in 1..MaxEvents :
          LET c == events[e].conn
          IN  (/\ events[e].stage = "stored"
               /\ events'[e].stage = "done"
               /\ readyState[c] = "OPEN")
              => /\ Len(outbox'[c]) > Len(outbox[c])
                 /\ outbox'[c][Len(outbox[c]) + 1].id = events[e].msgId
      ]_vars

\* C23: messages are stored in the order they were submitted, with
\* timestamps that never decrease, and every connection is pushed them in
\* that order
SubmissionOrderKept ==
    /\ \A i, j \in 1..Len(messages) :
          i < j => /\ messages[i].content < messages[j].content
                   /\ messages[i].timestamp <= messages[j].timestamp
    /\ \A c \in Conns : \A k, l \in 1..Len(outbox[c]) :
          k < l => outbox[c][k].content <= outbox[c][l].content

\* one connection has submitted two messages to one receiver, and the
\* receiver's connection has been pushed both
TwoPushedInOrder ==
    \E c \in Conns :
        /\ Len(messages) >= 2
        /\ messages[1].senderId = messages[2].senderId
        /\ messages[1].receiverId = messages[2].receiverId
        /\ messages[1].senderId # messages[1].receiverId
        /\ userId[c] = messages[1].receiverId
        /\ Len(outbox[c]) >= 2
        /\ outbox[c][1].id = messages[1].id
        /\ outbox[c][2].id = messages[2].id

\* C24: a connection that registers as user u (join, or authenticate with
\* a token that verifies) becomes u's registry entry whatever the entry
\* was, no other connection is closed by that, and an entry changes only
\* by such a registration or by its removal
LatestRegistrationWins ==
    [][/\ \A c \in Conns :
            /\ \A u \in UserIds :
                  Join(c, u)
                  => /\ userConnections'[u] = c
                     /\ readyState' = readyState
                     /\ closeCode' = closeCode
            /\ \A t \in Tokens :
                  (Authenticate(c, t) /\ verifyAccessToken(t) # NoPayload)
                  => /\ userConnections'[t.id] = c
                     /\ readyState' = readyState
                     /\ closeCode' = closeCode
       /\ \A u \in UserIds :
            userConnections'[u] # userConnections[u]
            => \/ userConnections'[u] = NoConn
               \/ userId'[userConnections'[u]] = u
      ]_vars

\* user s1's entry is the second connection while the first, which
\* registered as s1 before, is still open and was not closed by the server
SupersededStaysOpen ==
    \E c, d \in Conns :
        /\ c # d
        /\ userId[c] = "s1" /\ userId[d] = "s1"
        /\ userConnections["s1"] = d
        /\ acceptedAt[c] <= acceptedAt[d] /\ c < d
        /\ readyState[c] = "OPEN" /\ closeCode[c] = 0

\* C25: the close codes for an invalid token and for a spoofed sender
\* differ, and a connection the server closes because the handling of its
\* event failed internally is not closed with the spoofed-sender code
InternalFailureHasOwnCode ==
    /\ [](CLOSE_UNAUTHORIZED # CLOSE_INVALID)
    /\ [][\A e \in 1..MaxEvents :
            LET c == events[e].conn
            IN  (/\ events[e].stage = "awaiting"
                 /\ events'[e].stage = "failed"
                 /\ closeCode'[c] # closeCode[c])
                => closeCode'[c] # CLOSE_INVALID
       ]_vars

\* ================================================ error handler claims
ErrorStatuses == {400, 401, 403, 404, 409, 500}

\* the error is answered by the last branch: no validation error and none
\* of the statuses that have a branch
InternalFailure(err) ==
    /\ ~err.zod
    /\ (IF err.status # 0 THEN err.status
        ELSE IF err.statusCode # 0 THEN err.statusCode ELSE 500)
          \notin {400, 401, 403, 404, 409}

FixedBodies ==
    /\ errRes.resp.status = 401 => errRes.resp.error = "Unauthorized"
    /\ errRes.resp.status = 403 => errRes.resp.error = "Forbidden"
    /\ errRes.resp.status = 404 => errRes.resp.error = "Not found"

\* C26 as stated: the status is one of the six, an internal failure is
\* answered 500 with the generic message only, and 401, 403 and 404 have
\* fixed bodies
ErrorBodyAlwaysGeneric ==
    errRes.handled
    => /\ errRes.resp.status \in ErrorStatuses
       /\ InternalFailure(errRes.err)
          => /\ errRes.resp.status = 500
             /\ errRes.resp.error = "Internal server error"
             /\ ~errRes.resp.details
       /\ FixedBodies

\* C26 amended: as above, but the generic message is guaranteed only
\* outside development mode; in development mode the body of an internal
\* failure carries the error's message (never its stack)
ErrorBodyGenericOutsideDevelopment ==
    errRes.handled
    => /\ errRes.resp.status \in ErrorStatuses
       /\ InternalFailure(errRes.err)
          => /\ errRes.resp.status = 500
             /\ ~errRes.resp.details
             /\ errRes.resp.error # errRes.err.stack
             /\ errRes.resp.error =
                  (IF errRes.dev THEN errRes.err.message
                   ELSE "Internal server error")
       /\ FixedBodies

\* an error with a status the handler has no branch for, and a message,
\* was answered outside development mode
UnknownStatusAnswered500 ==
    /\ errRes.handled
    /\ ~errRes.dev
    /\ errRes.err.status = 418
    /\ errRes.err.message # ""
    /\ errRes.resp.status = 500
    /\ errRes.resp.error = "Internal server error"

\* C27: a socket message of an unrecognized type, or one that is not
\* JSON, is answered with a rejection (the connection is closed with a
\* code, or is sent something) and changes neither the registry nor the
\* message store
UnknownMessageRejected ==
    [][\A c \in Conns :
          /\ \A e \in 1..MaxEvents, p \in BOOLEAN :
                (UnhandledShipped(c, e, "ping", p) /\ readyState[c] = "OPEN")
                => /\ closeCode'[c] # 0 \/ outbox'[c] # outbox[c]
                   /\ userConnections' = userConnections
                   /\ messages' = messages
          /\ \A p \in BOOLEAN :
                (OtherMessage(c, p) /\ readyState[c] = "OPEN")
                => /\ closeCode'[c] # 0 \/ outbox'[c] # outbox[c]
                   /\ userConnections' = userConnections
                   /\ messages' = messages
      ]_vars

\* C28: for every id and proposed time the conflict check is true exactly
\* if some session that is neither cancelled nor completed has that id as
\* its mentor and lies within the window (so never because of sessions in
\* which the id is the student, and never for an id without sessions)
ConflictCountsMentorSessionsOnly ==
    \A m \in UserIds \cup {"zz"}, t \in SlotTimes :
        checkBookingConflict(sessions, m, t)
        <=> \E i \in 1..Len(sessions) :
               /\ sessions[i].mentorId = m
               /\ Active(sessions[i])
               /\ Abs(sessions[i].scheduledTime - t) < WindowMs

\* C29: no registry entry is a connection whose close handler has run
NoEntryForClosedConnection ==
    \A u \in UserIds :
        userConnections[u] # NoConn
        => readyState[userConnections[u]] # "CLOSED"

\* C30: whenever a stored message is pushed to a connection, the user
\* whose client opened that connection is the sender or the receiver of
\* the message
PushOnlyToParties ==
    [][\A e \in 1..MaxEvents, c \in Conns :
          (/\ events[e].stage = "stored"
           /\ events'[e].stage = "done"
           /\ outbox'[c] # outbox[c])
          => Owner(c) \in {events[e].senderId, events[e].receiverId}
      ]_vars

====
